---- MODULE Spec2Model ----
(***************************************************************************)
(* A model of the SPV client's connection manager and header-sync driver   *)
(* (src/src/client.cc), with the parts of Connection and Chain it calls.   *)
(* One action per event-loop callback; a callback runs to completion,      *)
(* including every Client method it calls.                                 *)
(***************************************************************************)
EXTENDS Integers, Sequences, FiniteSets, TLC

(* ------------------------------ bounds --------------------------------- *)

\* number of distinct peer addresses on the network
NumAddrs == 3
\* settings_.max_connections (a configuration value)
max_connections == 2
\* sockets of destroyed connections whose close event is still queued
MaxClosing == 1
\* getheaders requests sent and not yet answered that are tracked
MaxRequests == 2
\* calls of Chain::save_tip that are counted
MaxSaves == 3
\* block_headers.size() < 2000 in notify_headers, scaled down
FullBatch == 2
\* peers the seeds resolve to where header sync is examined
NumSyncPeers == 2
\* how far below and above each varint boundary the values encoded lie
VarintSpan == 16

(* ----------------------------- constants ------------------------------- *)

\* testSeeds has three entries
NumSeeds == 3

NULL == 0
Addr == 1..NumAddrs
Seeds == 1..NumSeeds
SyncAddr == 1..NumSyncPeers

\* NetAddr {time, services, addr}: the address plus the gossip timestamp
NetAddr == [addr : Addr, time : {0}]

\* the addresses no seed resolves to, gossiped with several timestamps
NumTimes == 2
TimedNetAddr == [addr : Addr \ SyncAddr, time : 0..(NumTimes - 1)]

\* the block headers a peer may send, named by their hash: the best chain
\* genesis, 1, .., BestHeight (one header more than a full batch) and a
\* header that forks off after header 1
genesis == 0
BestHeight == FullBatch + 1
ForkHash == BestHeight + 1
Hashes == 1..ForkHash
\* further headers, which no peer sends in a headers message: one on top of
\* ForkHash, two that fork off at genesis, and one whose parent is unknown
SideHash == ForkHash + 2
Orphan == ForkHash + 4
ChainHashes == 1..Orphan
\* BlockHeader.prev_block
PrevBlock ==
    [h \in ChainHashes |->
        IF h = ForkHash THEN 1
        ELSE IF h = SideHash THEN genesis
        ELSE IF h = Orphan THEN Orphan + 1
        ELSE h - 1]
\* headers whose timestamp is within 24 hours of now
RecentHashes == {BestHeight}

Inv == [type : {"BLOCK"}, hash : {1, BestHeight}] \cup [type : {"TX"}, hash : {1}]
TxInv == [type : {"TX"}, hash : {1}]

\* the lists a headers message may carry
RECURSIVE SeqsUpTo(_, _)
SeqsUpTo(S, n) ==
    IF n = 0 THEN {<< >>}
    ELSE LET shorter == SeqsUpTo(S, n - 1)
         IN shorter \cup {Append(s, x) : s \in {t \in shorter : Len(t) = n - 1}, x \in S}
Batches == SeqsUpTo(Hashes, FullBatch)

Range(s) == {s[i] : i \in 1..Len(s)}

(* ------------------------------- state --------------------------------- *)

VARIABLES
    started,         \* Client::run has been called
    connections_,    \* Addr -> Connection, the connections map
    peers_,          \* known peers (NetAddr), from addr gossip
    seed_peers_,     \* addresses obtained from the DNS seeds
    dns_requests_,   \* the Client's list of active DNS requests
    resolver,        \* per seed: "idle", "pending" (callback to come), "done"
    shutdown_,
    need_headers_,
    hdr_timeout_,    \* NULL, or the peer the armed header timer was started for
    chain_,          \* [height : hash -> height, tip : hash]
    pending_inv_,
    closing,         \* close events queued for sockets of destroyed connections
    requests,        \* getheaders sent and not answered, oldest first
    save_tip_calls,
    aborted,         \* "" or the assertion / invalid read that ended the process
    last             \* the callback that ran last, its inputs and what it sent

vars == <<started, connections_, peers_, seed_peers_, dns_requests_, resolver,
          shutdown_, need_headers_, hdr_timeout_, chain_, pending_inv_, closing,
          requests, save_tip_calls, aborted, last>>

\* everything but the record of the last callback
clientVars == <<started, connections_, peers_, seed_peers_, dns_requests_,
                resolver, shutdown_, need_headers_, hdr_timeout_, chain_,
                pending_inv_, closing, requests, save_tip_calls, aborted>>

poolVars == <<connections_, peers_, seed_peers_, closing>>
dnsVars == <<dns_requests_, resolver>>
syncVars == <<need_headers_, hdr_timeout_, chain_, requests, save_tip_calls>>

\* what a callback does that is visible from outside: a message written to a
\* socket, a connection attempt, or a line it logs
NoInv == [type |-> "NONE", hash |-> 0]
ToAddr(addr) == [addr |-> addr]
Out(what, arg) == [what |-> what, arg |-> arg]
Event(op, in, out) == [op |-> op, in |-> in, out |-> out]

NewConnection ==
    [tcp |-> "connecting", timer |-> TRUE,
     have_version |-> FALSE, have_verack |-> FALSE]

Init ==
    /\ started = FALSE
    /\ connections_ = << >>
    /\ peers_ = {}
    /\ seed_peers_ = {}
    /\ dns_requests_ = {}
    /\ resolver = [s \in Seeds |-> "idle"]
    /\ shutdown_ = FALSE
    /\ need_headers_ = TRUE
    /\ hdr_timeout_ = NULL
    /\ chain_ = [height |-> (genesis :> 0), tip |-> genesis]
    /\ pending_inv_ = {}
    /\ closing = 0
    /\ requests = << >>
    /\ save_tip_calls = 0
    /\ aborted = ""
    /\ last = Event("init", << >>, << >>)

Running == aborted = ""

(* ------------------------------- Chain --------------------------------- *)

has_block(chain, hash) == hash \in DOMAIN chain.height

\* put_block_header that also moves the tip to a header of equal height
put_block_header_ge(chain, hash) ==
    IF PrevBlock[hash] \in DOMAIN chain.height /\ hash \notin DOMAIN chain.height
    THEN LET h == chain.height[PrevBlock[hash]] + 1
         IN [height |-> chain.height @@ (hash :> h),
             tip |-> IF h >= chain.height[chain.tip] THEN hash ELSE chain.tip]
    ELSE chain

put_block_header(chain, hash) ==
    IF PrevBlock[hash] \in DOMAIN chain.height /\ hash \notin DOMAIN chain.height
    THEN LET h == chain.height[PrevBlock[hash]] + 1
         IN [height |-> chain.height @@ (hash :> h),
             tip |-> IF h > chain.height[chain.tip] THEN hash ELSE chain.tip]
    ELSE chain

tip_is_recent(chain) == chain.tip \in RecentHashes

\* a loop that stops after the first header
put_first(chain, batch) ==
    IF batch = << >> THEN chain ELSE put_block_header(chain, Head(batch))

\* the loop of notify_headers over block_headers: put_block_header for each
RECURSIVE put_all(_, _)
put_all(chain, batch) ==
    IF batch = << >> THEN chain
    ELSE put_all(put_block_header(chain, Head(batch)), Tail(batch))

\* a call of Chain::put_block_header with one header
PutBlockHeader(hash) ==
    /\ chain_' = put_block_header(chain_, hash)
    /\ last' = Event("put_block_header", <<hash>>,
                     IF chain_' # chain_ THEN <<Out("inserted", NoInv)>> ELSE << >>)
    /\ UNCHANGED <<started, connections_, peers_, seed_peers_, dns_requests_,
                   resolver, shutdown_, need_headers_, hdr_timeout_, pending_inv_,
                   closing, requests, save_tip_calls, aborted>>

(* ------------------------ Client: peer selection ----------------------- *)

\* connected() that is satisfied with either message
Connected_either(conns) ==
    {a \in DOMAIN conns : conns[a].have_version \/ conns[a].have_verack}

\* connected() that looks at have_verack_ only
Connected_have_verack(conns) ==
    {a \in DOMAIN conns : conns[a].have_verack}

\* the connections whose connected() is true
Connected(conns) ==
    {a \in DOMAIN conns : conns[a].have_version /\ conns[a].have_verack}

\* select_peer that takes any seed address once the known peers are used up
select_peer_any_seed(conns, peers, seeds) ==
    LET known == {p.addr : p \in {q \in peers : q.addr \notin DOMAIN conns}}
    IN IF known # {} THEN [from : {"choosing from peers"}, addr : known]
       ELSE [from : {"choosing from seed peers"}, addr : seeds]

\* the candidates select_peer chooses among, and the list they come from
select_peer(conns, peers, seeds) ==
    LET known == {p.addr : p \in {q \in peers : q.addr \notin DOMAIN conns}}
        seed == {a \in seeds : a \notin DOMAIN conns}
    IN IF known # {} THEN [from : {"choosing from peers"}, addr : known]
       ELSE [from : {"choosing from seed peers"}, addr : seed]

is_connected_to_addr(conns, addr) == addr \in DOMAIN conns

\* connections_.insert(std::make_pair(addr, conn))
connect_to_addr(conns, addr) == (addr :> NewConnection) @@ conns

\* the connections random_connection chooses among
random_connection(conns) == Connected(conns)

\* the entries of peers_ one of which remove_connection erases
peers_of_addr(peers, addr) == {p \in peers : p.addr = addr}

\* the erase loop without its break: every entry of the address goes
remove_peer_no_break(peers, addr) == {peers \ peers_of_addr(peers, addr)}

\* the values peers_ may have after remove_connection's erase loop
remove_peer(peers, addr) ==
    IF peers_of_addr(peers, addr) = {} THEN {peers}
    ELSE {peers \ {p} : p \in peers_of_addr(peers, addr)}

\* erasing a connection destroys it; its destructor closes a socket that is
\* not closed yet, and the close event is delivered later
closes_socket(conn) == conn.tcp \in {"connecting", "open", "closing"}

Without(conns, addr) == [a \in DOMAIN conns \ {addr} |-> conns[a]]

\* hdr_timeout_ after cancel_hdr_timeout()
cancel_hdr_timeout(hdr) == NULL

\* need_inv without the look at pending_inv_
need_inv_ignoring_pending(pending, chain, inv) == ~has_block(chain, inv.hash)

need_inv(pending, chain, inv) ==
    IF inv \in pending THEN FALSE ELSE ~has_block(chain, inv.hash)

(* ------------------- Client methods called by handlers ----------------- *)

\* connect_to_addr(addr), with its assertion on the insertion
ConnectToAddr(ev, conns, addr) ==
    IF is_connected_to_addr(conns, addr)
    THEN /\ aborted' = "connect_to_addr"
         /\ connections_' = conns
         /\ last' = ev
    ELSE /\ aborted' = aborted
         /\ connections_' = connect_to_addr(conns, addr)
         /\ last' = [ev EXCEPT !.out = Append(ev.out, Out("connect", ToAddr(addr)))]

\* connect_to_addr(select_peer()), with select_peer's assertion
ConnectToSelected(ev, conns, peers, seeds) ==
    IF select_peer(conns, peers, seeds) = {}
    THEN /\ aborted' = "select_peer"
         /\ connections_' = conns
         /\ last' = ev
    ELSE \E r \in select_peer(conns, peers, seeds) :
            ConnectToAddr([ev EXCEPT !.out = Append(ev.out, Out(r.from, ToAddr(r.addr)))],
                          conns, r.addr)

connect_to_new_peer(ev, conns, peers, seeds) ==
    IF ~shutdown_ /\ Cardinality(DOMAIN conns) < max_connections
    THEN ConnectToSelected(ev, conns, peers, seeds)
    ELSE /\ aborted' = aborted
         /\ connections_' = conns
         /\ last' = ev

\* Connection::get_headers emits the getheaders message only on a connection
\* that has completed the handshake
get_headers(conns, a) == a \in Connected(conns)

\* sync_more_headers(conn) entered with hdr_timeout_ = hdr; c = NULL is the
\* call without a connection. The header timer is armed for the peer asked.
sync_more_headers(ev, c, conns, hdr, reqs) ==
    LET cands == IF c = NULL THEN random_connection(conns) ELSE {c}
    IN IF cands = {}
       THEN /\ aborted' = "random_connection"
            /\ hdr_timeout_' = hdr
            /\ requests' = reqs
            /\ last' = ev
       ELSE IF hdr # NULL
       THEN /\ aborted' = "hdr_timeout"
            /\ hdr_timeout_' = hdr
            /\ requests' = reqs
            /\ last' = ev
       ELSE /\ \E a \in cands :
                 /\ hdr_timeout_' = a
                 /\ IF get_headers(conns, a)
                    THEN /\ Len(reqs) < MaxRequests
                         /\ requests' = Append(reqs, [to |-> a, timed_out |-> FALSE])
                         /\ last' = [ev EXCEPT !.out = Append(ev.out, Out("getheaders", NoInv))]
                    ELSE /\ requests' = reqs
                         /\ last' = [ev EXCEPT !.out = Append(ev.out, Out("getheaders rejected", NoInv))]
            /\ aborted' = aborted

\* the requests still waiting for a reply once addr's socket is gone
DropRequests(reqs, addr) == SelectSeq(reqs, LAMBDA r : r.to # addr)

\* remove_connection(conn) for the connection to addr
remove_connection(addr) ==
    IF addr \notin DOMAIN connections_
    THEN UNCHANGED <<connections_, peers_, closing, requests>>
    ELSE /\ connections_' = Without(connections_, addr)
         /\ peers_' \in remove_peer(peers_, addr)
         /\ IF closes_socket(connections_[addr])
            THEN closing < MaxClosing /\ closing' = closing + 1
            ELSE closing' = closing
         /\ requests' = DropRequests(requests, addr)

(* ----------------------- Client::run and the DNS seeds ------------------ *)

\* Client::run: lookup_seed for every seed
Run ==
    /\ Running /\ ~started /\ ~shutdown_
    /\ started' = TRUE
    /\ resolver' = [s \in Seeds |-> "pending"]
    /\ dns_requests_' = dns_requests_ \cup Seeds
    /\ last' = Event("run", << >>, << >>)
    /\ UNCHANGED <<poolVars, shutdown_, syncVars, pending_inv_, aborted>>

remove_dns_request(reqs, s) == reqs \ {s}

\* the AddrInfoEvent handler of lookup_seed: seed s resolved to addrs
AddrInfoEvent(s, addrs) ==
    /\ Running /\ resolver[s] = "pending"
    /\ seed_peers_' = seed_peers_ \cup addrs
    /\ ConnectToSelected(Event("addrinfo", << >>, << >>),
                         connections_, peers_, seed_peers_')
    /\ dns_requests_' = IF aborted' = "" THEN remove_dns_request(dns_requests_, s)
                        ELSE dns_requests_
    /\ resolver' = [resolver EXCEPT ![s] = "done"]
    /\ UNCHANGED <<started, peers_, closing, shutdown_, syncVars, pending_inv_>>

\* the ErrorEvent handler of lookup_seed: it only logs
DnsErrorEvent(s) ==
    /\ Running /\ resolver[s] \in {"pending", "cancelled"}
    /\ resolver' = [resolver EXCEPT ![s] = "done"]
    /\ last' = Event("dns_error", << >>, << >>)
    /\ UNCHANGED <<started, poolVars, dns_requests_, shutdown_, syncVars,
                   pending_inv_, aborted>>

(* --------------------- socket and connect-timer events ----------------- *)

Live(a) == a \in DOMAIN connections_ /\ connections_[a].tcp \in {"connecting", "open"}

\* tcp ErrorEvent: cancel_timer(); remove_connection(conn)
TcpErrorEvent(a) ==
    /\ Running /\ Live(a)
    /\ remove_connection(a)
    /\ last' = Event("tcp_error", << >>, << >>)
    /\ UNCHANGED <<started, seed_peers_, dnsVars, shutdown_, need_headers_,
                   hdr_timeout_, chain_, save_tip_calls, pending_inv_, aborted>>

\* tcp ConnectEvent: cancel_timer(); tcp_->read(); send_version()
ConnectEvent(a) ==
    /\ Running /\ a \in DOMAIN connections_ /\ connections_[a].tcp = "connecting"
    /\ connections_' = [connections_ EXCEPT ![a].tcp = "open", ![a].timer = FALSE]
    /\ last' = Event("connect", << >>, <<Out("version", NoInv)>>)
    /\ UNCHANGED <<started, peers_, seed_peers_, closing, dnsVars, shutdown_,
                   syncVars, pending_inv_, aborted>>

\* tcp EndEvent: remove_connection(conn)
EndEvent(a) ==
    /\ Running /\ a \in DOMAIN connections_ /\ connections_[a].tcp = "open"
    /\ remove_connection(a)
    /\ last' = Event("end", << >>, << >>)
    /\ UNCHANGED <<started, seed_peers_, dnsVars, shutdown_, need_headers_,
                   hdr_timeout_, chain_, save_tip_calls, pending_inv_, aborted>>

\* the connect timer's TimerEvent: remove_connection(conn); timer.close()
ConnectTimerEvent(a) ==
    /\ Running /\ a \in DOMAIN connections_ /\ connections_[a].timer
    /\ remove_connection(a)
    /\ last' = Event("connect_timeout", << >>, << >>)
    /\ UNCHANGED <<started, seed_peers_, dnsVars, shutdown_, need_headers_,
                   hdr_timeout_, chain_, save_tip_calls, pending_inv_, aborted>>

\* tcp CloseEvent of a destroyed connection: cancel_timer(); connect_to_new_peer()
CloseEvent ==
    /\ Running /\ closing > 0
    /\ closing' = closing - 1
    /\ connect_to_new_peer(Event("close", << >>, << >>),
                           connections_, peers_, seed_peers_)
    /\ UNCHANGED <<started, peers_, seed_peers_, dnsVars, shutdown_, syncVars,
                   pending_inv_>>

\* tcp CloseEvent of a connection Client::shutdown closed and left in the map
CloseEventOf(a) ==
    /\ Running /\ a \in DOMAIN connections_ /\ connections_[a].tcp = "closing"
    /\ connect_to_new_peer(Event("close", << >>, << >>),
                           [connections_ EXCEPT ![a].tcp = "closed", ![a].timer = FALSE],
                           peers_, seed_peers_)
    /\ UNCHANGED <<started, peers_, seed_peers_, closing, dnsVars, shutdown_,
                   syncVars, pending_inv_>>

\* Connection::shutdown of every connection: the socket is closed
shutdown_connections(conns) ==
    [a \in DOMAIN conns |->
        IF conns[a].tcp \in {"connecting", "open"}
        THEN [conns[a] EXCEPT !.tcp = "closing"] ELSE conns[a]]

\* cancel(): a request that has not started is cancelled and reports an
\* error later; one that is already being resolved is not (the result of
\* cancel() is ignored) and completes as usual
cancel_dns_requests(res) ==
    {r \in [Seeds -> {"idle", "pending", "cancelled", "done"}] :
        \A s \in Seeds : IF res[s] = "pending" THEN r[s] \in {"pending", "cancelled"}
                         ELSE r[s] = res[s]}

\* Client::shutdown without the test of shutdown_
shutdown_unguarded ==
    /\ Running
    /\ last' = Event("shutdown", <<shutdown_>>, << >>)
    /\ shutdown_' = TRUE
    /\ connections_' = shutdown_connections(connections_)
    /\ hdr_timeout_' = cancel_hdr_timeout(hdr_timeout_)
    /\ requests' = << >>
    /\ resolver' \in cancel_dns_requests(resolver)
    /\ dns_requests_' = {}
    /\ UNCHANGED <<started, peers_, seed_peers_, closing, need_headers_, chain_,
                   save_tip_calls, pending_inv_, aborted>>

\* Client::shutdown; the event records whether shutdown_ was set at the call
Shutdown ==
    /\ Running
    /\ last' = Event("shutdown", <<shutdown_>>, << >>)
    /\ IF ~shutdown_
       THEN /\ shutdown_' = TRUE
            /\ connections_' = shutdown_connections(connections_)
            /\ hdr_timeout_' = cancel_hdr_timeout(hdr_timeout_)
            /\ requests' = << >>
            /\ resolver' \in cancel_dns_requests(resolver)
            /\ dns_requests_' = {}
       ELSE UNCHANGED <<shutdown_, connections_, hdr_timeout_, requests, dnsVars>>
    /\ UNCHANGED <<started, peers_, seed_peers_, closing, need_headers_, chain_,
                   save_tip_calls, pending_inv_, aborted>>

(* ------------------ messages from a peer (Connection) ------------------ *)

Open(a) == a \in DOMAIN connections_ /\ connections_[a].tcp = "open"

\* Connection handles version: records it and answers verack
RecvVersion(a) ==
    /\ Running /\ Open(a)
    /\ connections_' = [connections_ EXCEPT ![a].have_version = TRUE]
    /\ last' = Event("version", <<a>>, <<Out("verack", NoInv)>>)
    /\ UNCHANGED <<started, peers_, seed_peers_, closing, dnsVars, shutdown_,
                   syncVars, pending_inv_, aborted>>

\* Client::notify_connected(conn)
notify_connected(ev, a, conns) ==
    IF need_headers_ /\ hdr_timeout_ = NULL
    THEN sync_more_headers(ev, a, conns, hdr_timeout_, requests)
    ELSE /\ UNCHANGED <<hdr_timeout_, requests, aborted>>
         /\ last' = ev

\* Connection handles verack: the first one sets have_verack and calls
\* notify_connected, a further one is ignored
RecvVerack(a) ==
    /\ Running /\ Open(a)
    /\ IF connections_[a].have_verack
       THEN /\ last' = Event("verack", <<a>>, << >>)
            /\ UNCHANGED <<connections_, hdr_timeout_, requests, aborted>>
       ELSE /\ connections_' = [connections_ EXCEPT ![a].have_verack = TRUE]
            /\ notify_connected(Event("verack", <<a>>,
                                      <<Out("notify_connected", ToAddr(a))>>),
                                a, connections_')
    /\ UNCHANGED <<started, peers_, seed_peers_, closing, dnsVars, shutdown_,
                   need_headers_, chain_, save_tip_calls, pending_inv_>>

\* the verack of a peer that keeps the order of the handshake
VerackAfterVersion(a) ==
    /\ Open(a) /\ connections_[a].have_version
    /\ RecvVerack(a)

\* the test of notify_peer without the look at the connections map
notify_peer_connects_unchecked(conns, peers, n) ==
    /\ n \notin peers
    /\ Cardinality(DOMAIN conns) < max_connections

\* the test of notify_peer without the comparison with max_connections
notify_peer_connects_no_cap(conns, peers, n) ==
    /\ n \notin peers
    /\ ~is_connected_to_addr(conns, n.addr)

\* pr.second && connections_.size() < max_connections && !is_connected_to_addr
notify_peer_connects(conns, peers, n) ==
    /\ n \notin peers
    /\ Cardinality(DOMAIN conns) < max_connections
    /\ ~is_connected_to_addr(conns, n.addr)

\* Client::notify_peer(conn, netaddr), called for an entry of an addr message
notify_peer(a, n) ==
    /\ Running /\ Open(a) /\ a \in Connected(connections_)
    /\ peers_' = peers_ \cup {n}
    /\ LET ev == Event("notify_peer", <<n>>,
                       IF n \in peers_ THEN <<Out("ignoring duplicate peer", n)>>
                       ELSE <<Out("added new peer", n)>>)
       IN IF notify_peer_connects(connections_, peers_, n)
          THEN ConnectToAddr(ev, connections_, n.addr)
          ELSE /\ UNCHANGED <<connections_, aborted>>
               /\ last' = ev
    /\ UNCHANGED <<started, seed_peers_, closing, dnsVars, shutdown_, syncVars,
                   pending_inv_>>

\* Client::notify_error(conn, why): a protocol violation or a pong timeout
notify_error(a) ==
    /\ Running /\ Open(a)
    /\ remove_connection(a)
    /\ last' = Event("notify_error", <<a>>, << >>)
    /\ UNCHANGED <<started, seed_peers_, dnsVars, shutdown_, need_headers_,
                   hdr_timeout_, chain_, save_tip_calls, pending_inv_, aborted>>

\* Client::remove_connection(conn) applied to a connection whose address is
\* not a key of connections_ (any more): the "was already removed" return.
\* No callback of client.cc makes this call; it is the method called directly.
remove_connection_again(a) ==
    /\ Running /\ started /\ a \notin DOMAIN connections_
    /\ remove_connection(a)
    /\ last' = Event("remove_connection", <<a>>,
                     <<Out("was already removed", ToAddr(a))>>)
    /\ UNCHANGED <<started, seed_peers_, dnsVars, shutdown_, need_headers_,
                   hdr_timeout_, chain_, save_tip_calls, pending_inv_, aborted>>

\* Client::notify_inv(conn, inv), called for an entry of an inv message
notify_inv(a, inv) ==
    /\ Running /\ Open(a) /\ a \in Connected(connections_)
    /\ IF need_inv(pending_inv_, chain_, inv)
       THEN /\ pending_inv_' = pending_inv_ \cup {inv}
            /\ last' = Event("notify_inv", <<inv>>, <<Out("getdata", inv)>>)
       ELSE /\ pending_inv_' = pending_inv_
            /\ last' = Event("notify_inv", <<inv>>, <<Out("skipping duplicate inv", inv)>>)
    /\ UNCHANGED <<started, poolVars, dnsVars, shutdown_, syncVars, aborted>>

(* ------------------------------ header sync ---------------------------- *)

\* the header timer's TimerEvent: the timer is closed and reset, then
\* sync_more_headers() is called without a connection
HeaderTimerEvent ==
    /\ Running /\ hdr_timeout_ # NULL
    /\ sync_more_headers(Event("hdr_timeout", << >>, << >>),
                         NULL, connections_, NULL,
                         [i \in 1..Len(requests) |->
                            IF i = Len(requests) /\ requests[i].to = hdr_timeout_
                            THEN [requests[i] EXCEPT !.timed_out = TRUE]
                            ELSE requests[i]])
    /\ UNCHANGED <<started, poolVars, dnsVars, shutdown_, need_headers_, chain_,
                   save_tip_calls, pending_inv_>>

\* a loop that looks at the first header only
dequeued_first(batch) ==
    IF batch = << >> THEN {} ELSE {[type |-> "BLOCK", hash |-> Head(batch)]}

\* the Inv entries the loop of notify_headers erases from pending_inv_
dequeued(batch) == {[type |-> "BLOCK", hash |-> h] : h \in Range(batch)}

\* the "de-queueing inv" lines the loop logs, one per entry it erases
RECURSIVE de_queueing(_, _)
de_queueing(pending, batch) ==
    IF batch = << >> THEN << >>
    ELSE LET inv == [type |-> "BLOCK", hash |-> Head(batch)]
         IN IF inv \in pending
            THEN <<Out("de-queueing inv", inv)>> \o de_queueing(pending \ {inv}, Tail(batch))
            ELSE de_queueing(pending, Tail(batch))

\* the oldest request to addr is the one a headers message answers
Answered(reqs, addr) ==
    LET i == CHOOSE j \in 1..Len(reqs) :
                 reqs[j].to = addr /\ \A k \in 1..(j - 1) : reqs[k].to # addr
    IN SubSeq(reqs, 1, i - 1) \o SubSeq(reqs, i + 1, Len(reqs))

\* the test with the recency of the tip inverted
sync_finished_inverted(batch, chain) == batch = << >> /\ ~tip_is_recent(chain)

\* block_headers.empty() && chain_.tip_is_recent()
sync_finished(batch, chain) == batch = << >> /\ tip_is_recent(chain)

\* what evaluating *block_headers.end() for the log line can do
end_deref_outcomes(batch) ==
    IF Len(batch) < FullBatch THEN {"garbage", "crash"} ELSE {"not evaluated"}

\* Client::notify_headers(conn, block_headers): peer a answers a getheaders
notify_headers(a, batch) ==
    /\ Running /\ Open(a) /\ a \in Connected(connections_)
    /\ \E i \in 1..Len(requests) : requests[i].to = a
    /\ LET reqs == Answered(requests, a)
           ev == Event("notify_headers", batch, de_queueing(pending_inv_, batch))
       IN IF sync_finished(batch, chain_)
          THEN /\ need_headers_' = FALSE
               /\ hdr_timeout_' = cancel_hdr_timeout(hdr_timeout_)
               /\ requests' = reqs
               /\ last' = Event("notify_headers", batch, <<Out("header syncing finished", NoInv)>>)
               /\ UNCHANGED <<chain_, pending_inv_, save_tip_calls, aborted>>
          ELSE \E outcome \in end_deref_outcomes(batch) :
                 IF outcome = "crash"
                 THEN /\ aborted' = "block_headers.end"
                      /\ hdr_timeout_' = cancel_hdr_timeout(hdr_timeout_)
                      /\ requests' = reqs
                      /\ last' = Event("notify_headers", batch, << >>)
                      /\ UNCHANGED <<need_headers_, chain_, pending_inv_, save_tip_calls>>
                 ELSE /\ chain_' = put_all(chain_, batch)
                      /\ pending_inv_' = pending_inv_ \ dequeued(batch)
                      /\ save_tip_calls < MaxSaves
                      /\ save_tip_calls' = save_tip_calls + 1
                      /\ sync_more_headers(ev, NULL, connections_,
                                           cancel_hdr_timeout(hdr_timeout_), reqs)
                      /\ UNCHANGED need_headers_
    /\ UNCHANGED <<started, poolVars, dnsVars, shutdown_>>

(* ------------------------------- Encoder ------------------------------- *)

\* a size_t (64 bits) as its eight bytes, least significant first
RECURSIVE le_bytes(_, _)
le_bytes(n, k) == IF k = 0 THEN << >> ELSE <<n % 256>> \o le_bytes(n \div 256, k - 1)

x_fd == le_bytes(253, 8)
x_ffff == le_bytes(65535, 8)
x_ffffffff == <<255, 255, 255, 255, 0, 0, 0, 0>>
x_100000000 == <<0, 0, 0, 0, 1, 0, 0, 0>>

\* x < y, decided at the most significant byte that differs
RECURSIVE less_from(_, _, _)
less_from(x, y, i) ==
    IF i = 0 THEN FALSE
    ELSE IF x[i] # y[i] THEN x[i] < y[i] ELSE less_from(x, y, i - 1)
Less(x, y) == less_from(x, y, 8)
LessEq(x, y) == x = y \/ Less(x, y)

\* x + 1 and x - 1 in 64 bits
RECURSIVE inc_from(_, _)
inc_from(x, i) ==
    IF i > 8 THEN x
    ELSE IF x[i] = 255 THEN inc_from([x EXCEPT ![i] = 0], i + 1)
    ELSE [x EXCEPT ![i] = x[i] + 1]
RECURSIVE dec_from(_, _)
dec_from(x, i) ==
    IF i > 8 THEN x
    ELSE IF x[i] = 0 THEN dec_from([x EXCEPT ![i] = 255], i + 1)
    ELSE [x EXCEPT ![i] = x[i] - 1]

RECURSIVE Upwards(_, _)
Upwards(x, k) == IF k = 0 THEN {x} ELSE {x} \cup Upwards(inc_from(x, 1), k - 1)
RECURSIVE Downwards(_, _)
Downwards(x, k) == IF k = 0 THEN {x} ELSE {x} \cup Downwards(dec_from(x, 1), k - 1)

\* the values push_varint is applied to: those around 0 (and so around the
\* largest size_t), 0xfd, 0x10000 and 0x100000000
VarintInputs ==
    UNION {Upwards(b, VarintSpan) \cup Downwards(b, VarintSpan) :
             b \in {le_bytes(0, 8), x_fd, inc_from(x_ffff, 1), x_100000000}}

\* push_int<T>(val): val converted to T (its low bytes) and appended in
\* little-endian order; size is sizeof(T)
push_int(val, size) == SubSeq(val, 1, size)

\* push_varint whose first test is val <= 0xfd
push_varint_le_fd(val) ==
    IF LessEq(val, x_fd) THEN push_int(val, 1)
    ELSE IF LessEq(val, x_ffff) THEN push_int(x_fd, 1) \o push_int(val, 2)
    ELSE IF LessEq(val, x_ffffffff) THEN push_int(inc_from(x_fd, 1), 1) \o push_int(val, 4)
    ELSE push_int(le_bytes(255, 8), 1) \o push_int(val, 8)

\* Encoder::push_varint(val): the bytes it appends
push_varint(val) ==
    IF Less(val, x_fd) THEN push_int(val, 1)
    ELSE IF LessEq(val, x_ffff) THEN push_int(x_fd, 1) \o push_int(val, 2)
    ELSE IF LessEq(val, x_ffffffff) THEN push_int(inc_from(x_fd, 1), 1) \o push_int(val, 4)
    ELSE push_int(le_bytes(255, 8), 1) \o push_int(val, 8)

\* push_varint(val) on an Encoder: the bytes appended are recorded
PushVarint(val) ==
    /\ last' = Event("push_varint", <<val>>, push_varint(val))
    /\ UNCHANGED clientVars

(* ---------------------------- specification ---------------------------- *)

Next ==
    \/ Run
    \/ \E s \in Seeds, addrs \in SUBSET Addr \ {{}} : AddrInfoEvent(s, addrs)
    \/ \E s \in Seeds : DnsErrorEvent(s)
    \/ \E a \in Addr : TcpErrorEvent(a)
    \/ \E a \in Addr : ConnectEvent(a)
    \/ \E a \in Addr : EndEvent(a)
    \/ \E a \in Addr : ConnectTimerEvent(a)
    \/ CloseEvent
    \/ \E a \in Addr : CloseEventOf(a)
    \/ Shutdown
    \/ \E a \in Addr : RecvVersion(a)
    \/ \E a \in Addr : RecvVerack(a)
    \/ \E a \in Addr, n \in NetAddr : notify_peer(a, n)
    \/ \E a \in Addr : notify_error(a)
    \/ \E a \in Addr, inv \in Inv : notify_inv(a, inv)
    \/ HeaderTimerEvent
    \/ \E a \in Addr, batch \in Batches : notify_headers(a, batch)

Spec == Init /\ [][Next]_vars

\* The connection pool: seeds resolve, connections are opened, fail and
\* are replaced, peers complete the handshake and gossip addresses. No
\* headers or inv arrive and the header timer has not fired yet.
NextPool ==
    \/ Run
    \/ \E s \in Seeds, addrs \in SUBSET Addr \ {{}} : AddrInfoEvent(s, addrs)
    \/ \E a \in Addr : TcpErrorEvent(a)
    \/ \E a \in Addr : ConnectEvent(a)
    \/ \E a \in Addr : ConnectTimerEvent(a)
    \/ CloseEvent
    \/ \E a \in Addr : RecvVersion(a)
    \/ \E a \in Addr : RecvVerack(a)
    \/ \E a \in Addr, n \in NetAddr : notify_peer(a, n)

SpecPool == Init /\ [][NextPool]_vars

\* Shutdown: the pool without address gossip, with failing seeds,
\* Client::shutdown at any moment and the events that follow it.
NextShutdown ==
    \/ Run
    \/ \E s \in Seeds, addrs \in SUBSET Addr \ {{}} : AddrInfoEvent(s, addrs)
    \/ \E s \in Seeds : DnsErrorEvent(s)
    \/ \E a \in Addr : TcpErrorEvent(a)
    \/ \E a \in Addr : ConnectEvent(a)
    \/ \E a \in Addr : ConnectTimerEvent(a)
    \/ CloseEvent
    \/ \E a \in Addr : CloseEventOf(a)
    \/ Shutdown
    \/ \E a \in Addr : RecvVersion(a)
    \/ \E a \in Addr : RecvVerack(a)
    \/ HeaderTimerEvent

SpecShutdown == Init /\ [][NextShutdown]_vars

\* Header sync: the seeds resolve to a few peers, which complete the
\* handshake, announce inventory and answer getheaders with any list of
\* headers, at any time after the request, or never.
NextSync ==
    \/ Run
    \/ \E s \in Seeds, addrs \in SUBSET SyncAddr \ {{}} : AddrInfoEvent(s, addrs)
    \/ \E a \in Addr : ConnectEvent(a)
    \/ \E a \in Addr : RecvVersion(a)
    \/ \E a \in Addr : RecvVerack(a)
    \/ \E a \in Addr, inv \in Inv : notify_inv(a, inv)
    \/ HeaderTimerEvent
    \/ \E a \in Addr, batch \in Batches : notify_headers(a, batch)

SpecSync == Init /\ [][NextSync]_vars

\* the headers message an honest peer that has the best chain sends in
\* reply to a getheaders for the headers after the tip: at most a full batch
Script(chain) ==
    LET h == chain.height[chain.tip]
        n == IF BestHeight - h < FullBatch THEN BestHeight - h ELSE FullBatch
    IN [i \in 1..n |-> h + i]

\* The header sync to a recent tip: every peer answers each getheaders once,
\* before the header timer fires, with the next headers of the best chain.
NextScenario ==
    \/ Run
    \/ \E s \in Seeds, addrs \in SUBSET SyncAddr \ {{}} : AddrInfoEvent(s, addrs)
    \/ \E a \in Addr : ConnectEvent(a)
    \/ \E a \in Addr : RecvVersion(a)
    \/ \E a \in Addr : RecvVerack(a)
    \/ \E a \in Addr : notify_headers(a, Script(chain_))

SpecScenario == Init /\ [][NextScenario]_vars

\* The handshake: the seeds resolve to a few peers, which send version and
\* verack in any order and any number of times and answer a getheaders with
\* the next headers of the best chain or not at all; connections fail at any
\* time.
NextHandshake ==
    \/ Run
    \/ \E s \in Seeds, addrs \in SUBSET SyncAddr \ {{}} : AddrInfoEvent(s, addrs)
    \/ \E a \in Addr : ConnectEvent(a)
    \/ \E a \in Addr : RecvVersion(a)
    \/ \E a \in Addr : RecvVerack(a)
    \/ \E a \in Addr : TcpErrorEvent(a)
    \/ CloseEvent
    \/ HeaderTimerEvent
    \/ \E a \in Addr : notify_headers(a, Script(chain_))

SpecHandshake == Init /\ [][NextHandshake]_vars

\* Peers that come and go during the header sync: they send version, then
\* verack, answer a getheaders with the next headers of the best chain or not
\* at all, and their connections fail or are closed at any time.
NextPeers ==
    \/ Run
    \/ \E s \in Seeds, addrs \in SUBSET SyncAddr \ {{}} : AddrInfoEvent(s, addrs)
    \/ \E a \in Addr : ConnectEvent(a)
    \/ \E a \in Addr : RecvVersion(a)
    \/ \E a \in Addr : VerackAfterVersion(a)
    \/ \E a \in Addr : TcpErrorEvent(a)
    \/ \E a \in Addr : EndEvent(a)
    \/ CloseEvent
    \/ HeaderTimerEvent
    \/ \E a \in Addr : notify_headers(a, Script(chain_))

SpecPeers == Init /\ [][NextPeers]_vars

\* Connections that are removed for every reason there is, while peers
\* gossip an address with several timestamps and announce a transaction:
\* a connection fails, times out before it is established, is closed by the
\* peer, or is dropped after a protocol error.
NextRemove ==
    \/ Run
    \/ \E s \in Seeds, addrs \in SUBSET SyncAddr \ {{}} : AddrInfoEvent(s, addrs)
    \/ \E a \in Addr : ConnectEvent(a)
    \/ \E a \in Addr : RecvVersion(a)
    \/ \E a \in Addr : VerackAfterVersion(a)
    \/ \E a \in Addr, n \in TimedNetAddr : notify_peer(a, n)
    \/ \E a \in Addr, inv \in TxInv : notify_inv(a, inv)
    \/ \E a \in Addr : TcpErrorEvent(a)
    \/ \E a \in Addr : ConnectTimerEvent(a)
    \/ \E a \in Addr : EndEvent(a)
    \/ \E a \in Addr : notify_error(a)
    \/ \E a \in Addr : remove_connection_again(a)
    \/ CloseEvent

SpecRemove == Init /\ [][NextRemove]_vars

\* The varint encoder: push_varint applied to values around the
\* boundaries of its four forms.
NextVarint == \E val \in VarintInputs : PushVarint(val)

SpecVarint == Init /\ [][NextVarint]_vars

\* The chain alone: put_block_header called with any headers in any order.
NextChain == \E hash \in ChainHashes : PutBlockHeader(hash)

SpecChain == Init /\ [][NextChain]_vars

(* ------------------------------- claims -------------------------------- *)

\* the outputs of the last callback that are of the given kind
Outs(ev, what) == {ev.out[i].arg : i \in 1..Len(ev.out)} \cap
                  {ev.out[i].arg : i \in {j \in 1..Len(ev.out) : ev.out[j].what = what}}

KnownAddrs == {p.addr : p \in peers_}

\* C1: in every reachable state the connections map has at most
\* max_connections entries, whichever path opened the connection.
C1_AtMostMaxConnections == Cardinality(DOMAIN connections_) <= max_connections

\* C8: the address select_peer returns is not a key of the connections map,
\* and it is taken from seed_peers only when every address of known_peers is
\* connected.
C8_SelectPeer ==
    [][/\ \A r \in Outs(last', "choosing from peers") :
            r.addr \notin DOMAIN connections_ /\ r.addr \in KnownAddrs
       /\ \A r \in Outs(last', "choosing from seed peers") :
            /\ r.addr \notin DOMAIN connections_
            /\ r.addr \in seed_peers_'
            /\ KnownAddrs \subseteq DOMAIN connections_]_vars

\* C8 witness: a seed address was chosen while known peers exist, all of
\* them connected.
C8_Witness ==
    /\ Outs(last, "choosing from seed peers") # {}
    /\ peers_ # {}
    /\ KnownAddrs \subseteq DOMAIN connections_

\* C9: when no unconnected address exists in known_peers or seed_peers,
\* connect_to_new_peer (here: after a close event) is a no-op: no connection
\* is opened, the client state is unchanged and the client keeps running.
C9_NoCandidateIsNoOp ==
    [][(last'.op = "close" /\ select_peer(connections_, peers_, seed_peers_) = {})
         => (aborted' = "" /\ UNCHANGED <<connections_, peers_, seed_peers_>>)]_vars

\* C10: once Client::shutdown has been called, no later event adds an entry
\* to the connections map.
C10_NoConnectionAfterShutdown ==
    [][shutdown_ => DOMAIN connections_' \subseteq DOMAIN connections_]_vars

Unanswered == {i \in 1..Len(requests) : ~requests[i].timed_out}

\* C2: sync_more_headers is entered only while no header timer is armed, and
\* at most one getheaders is outstanding: each one sent has been answered or
\* has timed out before the next is sent.
C2_SingleGetheadersInFlight ==
    /\ aborted # "hdr_timeout"
    /\ Cardinality(Unanswered) <= 1

\* C3: when the header timer fires, a new getheaders goes to a connected peer
\* other than the one that timed out, the timer is re-armed and the
\* unresponsive peer stays in the connections map. Stated for the case where
\* another connected peer exists.
C3_TimeoutAsksAnotherPeer ==
    [][(last'.op = "hdr_timeout" /\ Connected(connections_) \ {hdr_timeout_} # {})
         => /\ aborted' = ""
            /\ Outs(last', "getheaders") # {}
            /\ hdr_timeout_' \in Connected(connections_) \ {hdr_timeout_}
            /\ hdr_timeout_ \in DOMAIN connections_']_vars

\* C4: notify_headers with an empty list while the tip is recent cancels the
\* header timer, sets need_headers to false and returns: the chain is
\* unchanged, save_tip is not called, no getheaders is sent and the header
\* timer is left unarmed.
C4_EmptyHeadersEndSync ==
    [][(last'.op = "notify_headers" /\ last'.in = << >> /\ tip_is_recent(chain_))
         => /\ need_headers_' = FALSE
            /\ hdr_timeout_' = NULL
            /\ chain_' = chain_
            /\ save_tip_calls' = save_tip_calls
            /\ Outs(last', "getheaders") = {}
            /\ Len(requests') < Len(requests)
            /\ aborted' = ""]_vars

\* C4 witness: the sync has ended with the timer unarmed.
C4_Witness ==
    /\ last.op = "notify_headers" /\ last.in = << >>
    /\ need_headers_ = FALSE /\ hdr_timeout_ = NULL /\ tip_is_recent(chain_)

\* the number of replies of the scenario that carried headers, by the tip
BatchesReceived ==
    IF chain_.tip = genesis THEN 0 ELSE IF chain_.tip = FullBatch THEN 1 ELSE 2

C6_GetdataIffNeeded ==
    [][last'.op = "notify_inv" =>
         LET inv == last'.in[1]
             needed == inv \notin pending_inv_ /\ inv.hash \notin DOMAIN chain_.height
         IN /\ Outs(last', "getdata") = IF needed THEN {inv} ELSE {}
            /\ pending_inv_' = IF needed THEN pending_inv_ \cup {inv} ELSE pending_inv_
            /\ (last.op = "notify_inv" /\ last.in = last'.in)
                 => Outs(last', "getdata") = {}]_vars

\* C6 witness: an Inv that is pending was announced again and skipped.
C6_Witness ==
    /\ last.op = "notify_inv"
    /\ Outs(last, "skipping duplicate inv") \cap pending_inv_ # {}

\* C7: after notify_headers has processed a non-empty batch, pending_inv has
\* no Inv(BLOCK, h) for a header hash h of the batch and its other entries
\* are unchanged.
C7_HeadersDequeueInv ==
    [][(/\ last'.op = "notify_headers" /\ last'.in # << >>
        /\ aborted' # "block_headers.end")
         => pending_inv_' =
              pending_inv_ \ {i \in Inv : i.type = "BLOCK" /\ i.hash \in Range(last'.in)}]_vars

\* C7 witness: a batch removed a pending block Inv and left another entry.
C7_Witness ==
    /\ last.op = "notify_headers" /\ last.in # << >>
    /\ Outs(last, "de-queueing inv") # {}
    /\ pending_inv_ # {}

\* C11: the first call of Client::shutdown shuts every connection down,
\* cancels the header timer and the DNS requests; a call made when shutdown_
\* is already set performs none of them and changes nothing, and after a
\* second call that follows the first the header timer is not armed and the
\* DNS request list is empty.
C11_ShutdownIdempotent ==
    [][last'.op = "shutdown" =>
         /\ shutdown_' = TRUE
         /\ IF shutdown_
            THEN /\ UNCHANGED clientVars
                 /\ last.op = "shutdown" => hdr_timeout_' = NULL /\ dns_requests_' = {}
            ELSE /\ hdr_timeout_' = NULL
                 /\ dns_requests_' = {}
                 /\ \A a \in DOMAIN connections_' : ~Live(a)']_vars

\* C11 witness: shutdown was called again right after the call that closed
\* the sockets of existing connections.
C11_Witness ==
    /\ last.op = "shutdown" /\ last.in = <<TRUE>>
    /\ shutdown_
    /\ \E a \in DOMAIN connections_ : connections_[a].tcp = "closing"
    /\ hdr_timeout_ = NULL /\ dns_requests_ = {}

\* C12 as stated: after notify_peer(netaddr) the netaddr is in known_peers,
\* and a connection to its addr is opened whenever the connections are fewer
\* than max_connections and the addr is not connected, also for a netaddr
\* that was in known_peers already.
C12_NotifyPeerConnects ==
    [][last'.op = "notify_peer" =>
         LET n == last'.in[1]
         IN /\ n \in peers_'
            /\ (/\ Cardinality(DOMAIN connections_) < max_connections
                /\ n.addr \notin DOMAIN connections_)
                 => /\ Outs(last', "connect") = {ToAddr(n.addr)}
                    /\ n.addr \in DOMAIN connections_']_vars

\* C12 amended: after notify_peer(netaddr) the netaddr is in known_peers,
\* and a connection to its addr is opened exactly when the netaddr was not in
\* known_peers before, the connections are fewer than max_connections and
\* the addr is not connected; otherwise the connections map is unchanged.
C12_NotifyPeerConnectsIfNew ==
    [][last'.op = "notify_peer" =>
         LET n == last'.in[1]
         IN /\ n \in peers_'
            /\ IF /\ n \notin peers_
                  /\ Cardinality(DOMAIN connections_) < max_connections
                  /\ n.addr \notin DOMAIN connections_
               THEN /\ Outs(last', "connect") = {ToAddr(n.addr)}
                    /\ DOMAIN connections_' = DOMAIN connections_ \cup {n.addr}
                    /\ connections_'[n.addr] = NewConnection
               ELSE /\ Outs(last', "connect") = {}
                    /\ connections_' = connections_]_vars

\* C12 witness: a netaddr that was known already was announced while there
\* was room for a connection and its addr was not connected, and no
\* connection was opened.
C12_Witness ==
    /\ last.op = "notify_peer"
    /\ last.in[1] \in peers_
    /\ Outs(last, "connect") = {}
    /\ Cardinality(DOMAIN connections_) < max_connections
    /\ last.in[1].addr \notin DOMAIN connections_

\* C13: when a socket errors, the connect timer fires or the peer closes, the
\* connection leaves the connections map and its socket is closed; the close
\* event that follows, with the client not shutting down, makes exactly one
\* connection attempt to replace it. Stated for close events that find the
\* connections below max_connections.
C13_RemovedAndReplacedOnce ==
    [][/\ last'.op \in {"tcp_error", "connect_timeout", "end"}
            => /\ Cardinality(DOMAIN connections_') = Cardinality(DOMAIN connections_) - 1
               /\ closing' = closing + 1
       /\ (/\ last'.op = "close" /\ ~shutdown_
           /\ Cardinality(DOMAIN connections_) < max_connections)
            => /\ aborted' = ""
               /\ Cardinality(Outs(last', "connect")) = 1
               /\ Cardinality(DOMAIN connections_') = Cardinality(DOMAIN connections_) + 1]_vars

\* C14: a DNS request that has completed, with an address list or with an
\* error, is not in the Client's list of active requests, and after shutdown
\* the list is empty (while the client runs).
C14_CompletedDnsRequestsRemoved ==
    aborted = "" =>
        /\ \A s \in Seeds : resolver[s] = "done" => s \notin dns_requests_
        /\ shutdown_ => dns_requests_ = {}

\* the number of bytes of val up to its most significant non-zero byte
SignificantBytes(val) ==
    IF \A i \in 1..8 : val[i] = 0 THEN 0
    ELSE CHOOSE i \in 1..8 : val[i] # 0 /\ \A j \in (i + 1)..8 : val[j] = 0

\* C15: push_varint(n) emits the shortest form that can hold n: the byte n
\* itself for n < 0xFD, else 0xFD and 2 bytes for n <= 0xFFFF, else 0xFE and
\* 4 bytes for n <= 0xFFFFFFFF, else 0xFF and 8 bytes, the value in
\* little-endian order.
C15_ShortestVarint ==
    last.op = "push_varint" =>
        LET n == last.in[1]
            w == SignificantBytes(n)
        IN IF w <= 1 /\ n[1] < 253 THEN last.out = <<n[1]>>
           ELSE IF w <= 2 THEN last.out = <<253, n[1], n[2]>>
           ELSE IF w <= 4 THEN last.out = <<254, n[1], n[2], n[3], n[4]>>
           ELSE last.out = <<255>> \o n

\* C15 witness: 0x100000000, the first value that needs the 8-byte form,
\* was encoded in 9 bytes.
C15_Witness ==
    /\ last.op = "push_varint"
    /\ last.in[1] = x_100000000
    /\ Len(last.out) = 9

\* C16: after every put_block_header the tip has the maximum height of all
\* headers in the chain; the tip moves only to a header strictly higher than
\* it, so that among headers of the maximum height the tip is the one
\* inserted first; and a header whose parent is unknown or whose hash is
\* present changes neither the chain nor the tip.
C16_TipIsFirstHighest ==
    [][last'.op = "put_block_header" =>
         LET hash == last'.in[1]
             height == chain_.height
         IN /\ \A h \in DOMAIN chain_'.height :
                  chain_'.height[h] <= chain_'.height[chain_'.tip]
            /\ chain_'.tip # chain_.tip
                 => chain_'.height[chain_'.tip] > height[chain_.tip]
            /\ (PrevBlock[hash] \notin DOMAIN height \/ hash \in DOMAIN height)
                 => chain_' = chain_
            /\ (PrevBlock[hash] \in DOMAIN height /\ hash \notin DOMAIN height)
                 => /\ DOMAIN chain_'.height = DOMAIN height \cup {hash}
                    /\ chain_'.height[hash] = height[PrevBlock[hash]] + 1
                    /\ \A h \in DOMAIN height : chain_'.height[h] = height[h]]_vars

\* C16 witness: a header was inserted at the height of the tip and the tip
\* stayed at the header inserted before it.
C16_Witness ==
    /\ last.op = "put_block_header"
    /\ Outs(last, "inserted") # {}
    /\ last.in[1] # chain_.tip
    /\ chain_.height[last.in[1]] = chain_.height[chain_.tip]

\* C17: whatever the order and number of version and verack messages, a
\* connection is connected exactly when a version and a verack have been
\* received; notify_connected is called for a connection by its first verack
\* and by nothing else, and a repeated verack starts no header sync.
C17_HandshakeOnce ==
    [][/\ last'.op = "version" =>
            LET a == last'.in[1]
            IN a \in Connected(connections_') <=> connections_[a].have_verack
       /\ last'.op = "verack" =>
            LET a == last'.in[1]
            IN /\ a \in Connected(connections_') <=> connections_[a].have_version
               /\ Outs(last', "notify_connected") =
                    IF connections_[a].have_verack THEN {} ELSE {ToAddr(a)}
               /\ connections_[a].have_verack
                    => /\ Outs(last', "getheaders") = {}
                       /\ UNCHANGED <<connections_, hdr_timeout_, requests>>
       /\ Outs(last', "notify_connected") # {} => last'.op = "verack"
       /\ last'.op \notin {"version", "verack"}
            => \A a \in DOMAIN connections_ \cap DOMAIN connections_' :
                 /\ connections_'[a].have_version = connections_[a].have_version
                 /\ connections_'[a].have_verack = connections_[a].have_verack]_vars

\* C17 witness: a connection that was connected received a further verack,
\* and notify_connected was not called again.
C17_Witness ==
    /\ last.op = "verack"
    /\ last.in[1] \in Connected(connections_)
    /\ Outs(last, "notify_connected") = {}

\* C18: connect_to_addr is never called for an address that is a key of the
\* connections map: its assertion on the insertion never fails, and every
\* connection attempt, from seed resolution, from a close event or from
\* notify_peer, adds a new key to the map.
C18_ConnectOnlyToUnconnected ==
    [][/\ aborted' # "connect_to_addr"
       /\ \A r \in Outs(last', "connect") :
            /\ r.addr \notin DOMAIN connections_
            /\ DOMAIN connections_' = DOMAIN connections_ \cup {r.addr}
            /\ \A a \in DOMAIN connections_ : connections_'[a] = connections_[a]]_vars

\* C18 witness: a peer announced a new netaddr whose address was connected
\* already, with room for a connection, and no connection was opened.
C18_Witness ==
    /\ last.op = "notify_peer"
    /\ Outs(last, "added new peer") # {}
    /\ last.in[1].addr \in DOMAIN connections_
    /\ Outs(last, "connect") = {}
    /\ Cardinality(DOMAIN connections_) < max_connections

\* C19: sync_more_headers called without a connection, after a processed
\* batch or after the header timer has fired, always finds a connected
\* connection: the assertion on random_connection's result never fails, also
\* after the peer that was asked has been removed.
C19_RandomConnectionNotNull == aborted # "random_connection"

C21_RemoveConnectionFrame ==
    [][/\ last'.op \in {"tcp_error", "connect_timeout", "end", "notify_error"}
          => \E a \in DOMAIN connections_ :
               /\ DOMAIN connections_' = DOMAIN connections_ \ {a}
               /\ \A b \in DOMAIN connections_' : connections_'[b] = connections_[b]
               /\ peers_' \subseteq peers_
               /\ \A p \in peers_ \ peers_' : p.addr = a
               /\ Cardinality(peers_ \ peers_') =
                     IF \E p \in peers_ : p.addr = a THEN 1 ELSE 0
               /\ UNCHANGED <<seed_peers_, pending_inv_, need_headers_,
                              hdr_timeout_>>
       /\ last'.op = "remove_connection"
          => /\ last'.in[1] \notin DOMAIN connections_
             /\ UNCHANGED clientVars]_vars

\* a connection was dropped after a protocol error while two entries of its
\* address were known, seed addresses, a pending inv and the header timer
\* were there: one of the two entries is left
C21_Witness ==
    /\ last.op = "notify_error"
    /\ last.in[1] \notin DOMAIN connections_
    /\ Cardinality({p \in peers_ : p.addr = last.in[1]}) = NumTimes - 1
    /\ seed_peers_ # {}
    /\ pending_inv_ # {}
    /\ need_headers_
    /\ hdr_timeout_ # NULL

====
